---- MODULE Spec2Model ----
(***************************************************************************)
(* Model of the AI model retirement scrapers: field normalization,         *)
(* deduplication, snapshot storage, change detection and feed assembly.    *)
(*                                                                         *)
(* Python values are modelled as follows.                                  *)
(*   str            a TLA+ string; characters are 1-length substrings      *)
(*   Optional[str]  None = << >>, a present string s = << s >>             *)
(*   an exception   Raised = << "raise", "ValueError" >>                   *)
(*   date           << year, month, day >>                                 *)
(*   dict (row)     a function from the keys present to strings            *)
(*   dict (ordered) a sequence of << key, value >> pairs with distinct     *)
(*                  keys in insertion order                                *)
(***************************************************************************)
EXTENDS Integers, Sequences, FiniteSets, TLC

VARIABLES
    call,          \* the last call of a pure function: its arguments and what it returned
    u_pc,          \* scrape.py: position of the run in __main__ ("idle" between runs)
    u_all_rows,    \* scrape.py: all_rows of the current (or last) run
    u_changes,     \* scrape.py: changes of the current (or last) run
    u_csv,         \* scrape.py: output/model_retirements.csv, NoFile or << rows >>
    u_changes_csv, \* scrape.py: output/model_retirements_changes.csv
    u_rss,         \* scrape.py: output/rss.xml, NoFile or << items >>
    u_runs,        \* scrape.py: runs started so far, the wall clock of the run
    u_outcome,     \* scrape.py: how the last run ended
    u_prev_rows,   \* scrape.py: all_rows of the successful run before the last one
    m_pc,          \* scrape_ms_retirements.py: position of the run in main()
    m_rows,        \* main(): rows, parsed and sorted
    m_old_snapshot, \* main(): old_snapshot
    m_changes,     \* main(): changes, as compared and then as handed to write_rss
    m_new_snapshot, \* main(): new_snapshot
    m_csv,         \* output/current_models.csv, NoFile or << rows >>
    m_snapshot,    \* data/snapshot.json, NoFile or << JSON object >>
    m_rss,         \* output/rss.xml, NoFile or << items >>
    m_runs,        \* runs started so far, the wall clock of the run
    m_outcome,     \* how the last run ended
    m_prev_rows,   \* rows of the completed run before the last one
    m_prev_items,  \* the feed entries before the last write_rss
    m_start_snapshot, \* data/snapshot.json as the last run found it
    m_start_rss,   \* output/rss.xml as the last run found it
    m_faults,      \* writes that failed or were killed so far
    m_pending      \* changes the saved snapshot holds and no feed entry reports

unifiedVars ==
    << u_pc, u_all_rows, u_changes, u_csv, u_changes_csv, u_rss, u_runs, u_outcome,
       u_prev_rows >>

msVars ==
    << m_pc, m_rows, m_old_snapshot, m_changes, m_new_snapshot, m_csv, m_snapshot, m_rss,
       m_runs, m_outcome, m_prev_rows, m_prev_items, m_start_snapshot, m_start_rss,
       m_faults, m_pending >>

vars == << call, unifiedVars, msVars >>

(***************************************************************************)
(* Bounds of the model.                                                    *)
(***************************************************************************)
\* number of text pieces concatenated into one raw date cell
MaxPieces == 2

\* number of rows handed to a deduplicator
MaxDedupRows == 3

\* number of rows of one scrape handed to change detection
MaxNewRows == 2

\* number of entries of a snapshot that is saved and loaded back
MaxSnapshotKeys == 2

\* number of runs of a script in one behaviour
MaxRuns == 3

\* number of rows in the table of one source
MaxTableRows == 1

\* rows of one parsed page of the multi-tab script
MaxPageRows == 2

\* writes of the multi-tab script that fail or are killed in one behaviour
MaxFaults == 1

(***************************************************************************)
(* Characters and strings.                                                 *)
(***************************************************************************)
None == << >>

Some(s) == << s >>

Raised == << "raise", "ValueError" >>

Char(s, i) == SubSeq(s, i, i)

DigitChars == "0123456789"

LowerChars == "abcdefghijklmnopqrstuvwxyz"

UpperChars == "ABCDEFGHIJKLMNOPQRSTUVWXYZ"

Digits == { Char(DigitChars, i) : i \in 1..10 }

Letters == { Char(LowerChars, i) : i \in 1..26 } \cup { Char(UpperChars, i) : i \in 1..26 }

\* \d
IsDigit(c) == c \in Digits

\* [A-Za-z]
IsAlpha(c) == c \in Letters

\* \s
IsSpace(c) == c \in { " ", "\t", "\n", "\r" }

\* \w
IsWord(c) == IsDigit(c) \/ IsAlpha(c) \/ c = "_"

DigitVal(c) == (CHOOSE i \in 1..10 : Char(DigitChars, i) = c) - 1

\* str.lower() of one character
LowerChar(c) ==
    IF \E i \in 1..26 : Char(UpperChars, i) = c
    THEN Char(LowerChars, CHOOSE i \in 1..26 : Char(UpperChars, i) = c)
    ELSE c

RECURSIVE Lower(_)
Lower(s) == IF s = "" THEN "" ELSE LowerChar(Char(s, 1)) \o Lower(Tail(s))

\* s[i:j] in 1-based inclusive positions
Sub(s, i, j) == SubSeq(s, i, j)

\* all characters of s[i..j] are digits (and the range lies inside s)
AllDigits(s, i, j) == j <= Len(s) /\ \A k \in i..j : IsDigit(Char(s, k))

\* int() of a digit string
RECURSIVE ToInt(_)
ToInt(s) == IF s = "" THEN 0 ELSE 10 * ToInt(Sub(s, 1, Len(s) - 1)) + DigitVal(Char(s, Len(s)))

\* the decimal digits of n, zero padded to at least w characters
RECURSIVE Pad(_, _)
Pad(n, w) ==
    IF n < 10 /\ w <= 1 THEN Char(DigitChars, n + 1)
    ELSE Pad(n \div 10, w - 1) \o Char(DigitChars, (n % 10) + 1)

\* last position of the run of characters of class P starting at i (i - 1 when empty)
RECURSIVE AlphaRunEnd(_, _)
AlphaRunEnd(s, i) == IF i <= Len(s) /\ IsAlpha(Char(s, i)) THEN AlphaRunEnd(s, i + 1) ELSE i - 1

RECURSIVE SpaceRunEnd(_, _)
SpaceRunEnd(s, i) == IF i <= Len(s) /\ IsSpace(Char(s, i)) THEN SpaceRunEnd(s, i + 1) ELSE i - 1

(***************************************************************************)
(* Calendar dates: datetime.date                                           *)
(***************************************************************************)
IsLeap(y) == (y % 4 = 0 /\ y % 100 # 0) \/ y % 400 = 0

DaysInMonth(y, m) ==
    IF m = 2 THEN (IF IsLeap(y) THEN 29 ELSE 28)
    ELSE IF m \in {4, 6, 9, 11} THEN 30 ELSE 31

\* datetime(y, m, d) accepts exactly these
ValidDate(y, m, d) == y \in 1..9999 /\ m \in 1..12 /\ d \in 1..DaysInMonth(y, m)

\* date < date
DateLess(a, b) ==
    \/ a[1] < b[1]
    \/ a[1] = b[1] /\ a[2] < b[2]
    \/ a[1] = b[1] /\ a[2] = b[2] /\ a[3] < b[3]

\* min() of a non-empty list of dates
MinDate(ds) == CHOOSE a \in { ds[i] : i \in 1..Len(ds) } :
                  \A j \in 1..Len(ds) : ~DateLess(ds[j], a)

\* date.strftime("%Y-%m-%d")
Strftime(dt) == Pad(dt[1], 4) \o "-" \o Pad(dt[2], 2) \o "-" \o Pad(dt[3], 2)

MonthNames == << "january", "february", "march", "april", "may", "june", "july",
                 "august", "september", "october", "november", "december" >>

\* datetime.strptime(s, "%Y-%m-%d").date() for s of the shape dddd-dd-dd:
\* a date, or Raised for ValueError
StrptimeIso(s) ==
    LET y == ToInt(Sub(s, 1, 4))
        m == ToInt(Sub(s, 6, 7))
        d == ToInt(Sub(s, 9, 10))
    IN  IF ValidDate(y, m, d) THEN << y, m, d >> ELSE Raised

\* datetime.strptime(f"{month} {day} {year}", "%B %d %Y").date(): %B is a full
\* month name in any letter case, %d one or two digits naming 1..31
StrptimeLong(month, day, year) ==
    LET y == ToInt(year)
        d == ToInt(day)
    IN  IF \E k \in 1..12 : MonthNames[k] = Lower(month)
        THEN LET m == CHOOSE k \in 1..12 : MonthNames[k] = Lower(month)
             IN  IF ValidDate(y, m, d) THEN << y, m, d >> ELSE Raised
        ELSE Raised

\* datetime(int(year), int(month), int(day)).date()
DatetimeOf(year, month, day) ==
    LET y == ToInt(year)
        m == ToInt(month)
        d == ToInt(day)
    IN  IF ValidDate(y, m, d) THEN << y, m, d >> ELSE Raised

(***************************************************************************)
(* The date regular expressions.  A match is << groups, end >> where end   *)
(* is the position of the last character matched; NoMatch otherwise.       *)
(***************************************************************************)
NoMatch == << >>

\* \b at the gap before position i
WordBoundary(s, i) ==
    LET before == i > 1 /\ i - 1 <= Len(s) /\ IsWord(Char(s, i - 1))
        after == i >= 1 /\ i <= Len(s) /\ IsWord(Char(s, i))
    IN  before # after

\* ISO_DATE_RE matched at position i
IsoMatchAt(s, i) ==
    IF /\ i + 9 <= Len(s)
       /\ WordBoundary(s, i)
       /\ AllDigits(s, i, i + 3) /\ Char(s, i + 4) = "-"
       /\ AllDigits(s, i + 5, i + 6) /\ Char(s, i + 7) = "-"
       /\ AllDigits(s, i + 8, i + 9)
       /\ WordBoundary(s, i + 10)
    THEN << << Sub(s, i, i + 9) >>, i + 9 >>
    ELSE NoMatch

\* one or two digits at i that are followed by the character c: \d{1,2} then c
DigitsBefore(s, i, c) ==
    IF AllDigits(s, i, i + 1) /\ i + 2 <= Len(s) /\ Char(s, i + 2) = c THEN i + 1
    ELSE IF AllDigits(s, i, i) /\ i + 1 <= Len(s) /\ Char(s, i + 1) = c THEN i
    ELSE 0

\* CLAUDE_DATE_RE / DATE_RE matched at position i
LongMatchAt(s, i) ==
    LET a == AlphaRunEnd(s, i)
        w == SpaceRunEnd(s, a + 1)
        d == DigitsBefore(s, w + 1, ",")
        v == SpaceRunEnd(s, d + 2)
    IN  IF /\ a >= i
           /\ w >= a + 1
           /\ d # 0
           /\ v >= d + 2
           /\ AllDigits(s, v + 1, v + 4)
        THEN << << Sub(s, i, a), Sub(s, w + 1, d), Sub(s, v + 1, v + 4) >>, v + 4 >>
        ELSE NoMatch

\* AWS_DATE_RE matched at position i
SlashMatchAt(s, i) ==
    LET m == DigitsBefore(s, i, "/")
        d == DigitsBefore(s, m + 2, "/")
    IN  IF m # 0 /\ d # 0 /\ AllDigits(s, d + 2, d + 5)
        THEN << << Sub(s, i, m), Sub(s, m + 2, d), Sub(s, d + 2, d + 5) >>, d + 5 >>
        ELSE NoMatch

\* re.search: the leftmost match at or after position i
RECURSIVE LongSearch(_, _)
LongSearch(s, i) ==
    IF i > Len(s) THEN NoMatch
    ELSE IF LongMatchAt(s, i) # NoMatch THEN LongMatchAt(s, i)
    ELSE LongSearch(s, i + 1)

RECURSIVE SlashSearch(_, _)
SlashSearch(s, i) ==
    IF i > Len(s) THEN NoMatch
    ELSE IF SlashMatchAt(s, i) # NoMatch THEN SlashMatchAt(s, i)
    ELSE SlashSearch(s, i + 1)

\* re.findall: the groups of the successive non-overlapping matches from i on
RECURSIVE IsoFindAll(_, _)
IsoFindAll(s, i) ==
    IF i > Len(s) THEN << >>
    ELSE IF IsoMatchAt(s, i) # NoMatch
         THEN << IsoMatchAt(s, i)[1][1] >> \o IsoFindAll(s, IsoMatchAt(s, i)[2] + 1)
         ELSE IsoFindAll(s, i + 1)

\* the dates of a list of ISO matches that strptime accepts, in order
RECURSIVE ParsedIso(_)
ParsedIso(ms) ==
    IF ms = << >> THEN << >>
    ELSE (IF StrptimeIso(Head(ms)) = Raised THEN << >> ELSE << StrptimeIso(Head(ms)) >>)
         \o ParsedIso(Tail(ms))

\* if not x, for x an Optional[str]
Falsy(x) == x = None \/ x = Some("")

(***************************************************************************)
(* The date normalizers.                                                   *)
(***************************************************************************)
\* scrape.py normalize_date_from_text
normalize_date_from_text(text) ==
    IF Falsy(text) THEN None
    ELSE LET t == text[1]
             iso == ParsedIso(IsoFindAll(t, 1))
             lm == LongSearch(t, 1)
             long == IF lm = NoMatch THEN << >>
                     ELSE IF StrptimeLong(lm[1][1], lm[1][2], lm[1][3]) = Raised THEN << >>
                     ELSE << StrptimeLong(lm[1][1], lm[1][2], lm[1][3]) >>
             sm == SlashSearch(t, 1)
             slash == IF sm = NoMatch THEN << >>
                      ELSE IF DatetimeOf(sm[1][3], sm[1][1], sm[1][2]) = Raised THEN << >>
                      ELSE << DatetimeOf(sm[1][3], sm[1][1], sm[1][2]) >>
             dates == iso \o long \o slash
         IN  IF dates = << >> THEN None ELSE Some(Strftime(MinDate(dates)))

\* scrape_claude_retirements.py normalize_retirement_date: the explicit raise
\* on no match and the unguarded strptime both surface as ValueError
claude_normalize_retirement_date(raw_date) ==
    IF Falsy(raw_date) THEN None
    ELSE LET lm == LongSearch(raw_date[1], 1)
         IN  IF lm = NoMatch THEN Raised
             ELSE IF StrptimeLong(lm[1][1], lm[1][2], lm[1][3]) = Raised THEN Raised
             ELSE Some(Strftime(StrptimeLong(lm[1][1], lm[1][2], lm[1][3])))

\* scrape_aws_retirements.py normalize_retirement_date
aws_normalize_retirement_date(raw_date) ==
    IF Falsy(raw_date) THEN None
    ELSE LET sm == SlashSearch(raw_date[1], 1)
         IN  IF sm = NoMatch THEN None
             ELSE IF DatetimeOf(sm[1][3], sm[1][1], sm[1][2]) = Raised THEN None
             ELSE Some(Strftime(DatetimeOf(sm[1][3], sm[1][1], sm[1][2])))

\* scrape_openai_retirements.py extract_earliest_date (text or "")
extract_earliest_date(text) ==
    LET t == IF text = None THEN "" ELSE text[1]
        dates == ParsedIso(IsoFindAll(t, 1))
    IN  IF dates = << >> THEN None ELSE Some(Strftime(MinDate(dates)))

(***************************************************************************)
(* Calls of the pure functions on inputs drawn from bounded sets.          *)
(***************************************************************************)
NoCall == [fn |-> "none"]

\* a file that does not exist
NoFile == << >>

\* scrape.py before its first run: no output file exists
UnifiedIdle ==
    /\ u_pc = "idle"
    /\ u_all_rows = << >>
    /\ u_changes = << >>
    /\ u_csv = NoFile
    /\ u_changes_csv = NoFile
    /\ u_rss = NoFile
    /\ u_runs = 0
    /\ u_outcome = "none"
    /\ u_prev_rows = None

\* scrape_ms_retirements.py before its first run: no output file exists
MsIdle ==
    /\ m_pc = "idle"
    /\ m_rows = << >>
    /\ m_old_snapshot = << >>
    /\ m_changes = << >>
    /\ m_new_snapshot = << >>
    /\ m_csv = NoFile
    /\ m_snapshot = NoFile
    /\ m_rss = NoFile
    /\ m_runs = 0
    /\ m_outcome = "none"
    /\ m_prev_rows = None
    /\ m_prev_items = << >>
    /\ m_start_snapshot = NoFile
    /\ m_start_rss = NoFile
    /\ m_faults = 0
    /\ m_pending = {}

\* the scripts are not run while a pure function is applied
PureInit == call = NoCall /\ UnifiedIdle /\ MsIdle

ScriptsUnchanged == UNCHANGED << unifiedVars, msVars >>

RECURSIVE Concat(_)
Concat(ps) == IF ps = << >> THEN "" ELSE Head(ps) \o Concat(Tail(ps))

\* every string made of at most n pieces of P
TextsOf(P, n) == { Concat(ps) : ps \in UNION { [1..k -> P] : k \in 0..n } }

\* raw date cells as the scraped tables carry them: the three grammars, valid
\* and invalid, qualifier text and separators
DatePieces ==
    { "2025-03-01", "2025-01-15", "2025-02-30",
      "March 1, 2026", "January 15, 2025", "Foo 3, 2025", "June 31, 2025",
      "9/23/2025", "1/5/2025", "13/1/2025",
      "Not sooner than ", " or ", "TBD" }

DateCells == { None } \cup { Some(t) : t \in TextsOf(DatePieces, MaxPieces) }

CallNormalizeDateFromText ==
    /\ call = NoCall
    /\ \E text \in DateCells :
        call' = [fn |-> "normalize_date_from_text", arg |-> text,
                 ret |-> normalize_date_from_text(text)]
    /\ ScriptsUnchanged

CallClaudeNormalizeRetirementDate ==
    /\ call = NoCall
    /\ \E text \in DateCells :
        call' = [fn |-> "claude.normalize_retirement_date", arg |-> text,
                 ret |-> claude_normalize_retirement_date(text)]
    /\ ScriptsUnchanged

CallAwsNormalizeRetirementDate ==
    /\ call = NoCall
    /\ \E text \in DateCells :
        call' = [fn |-> "aws.normalize_retirement_date", arg |-> text,
                 ret |-> aws_normalize_retirement_date(text)]
    /\ ScriptsUnchanged

CallExtractEarliestDate ==
    /\ call = NoCall
    /\ \E text \in DateCells :
        call' = [fn |-> "extract_earliest_date", arg |-> text,
                 ret |-> extract_earliest_date(text)]
    /\ ScriptsUnchanged

DateInit == PureInit

DateNext ==
    \/ CallNormalizeDateFromText
    \/ CallClaudeNormalizeRetirementDate
    \/ CallAwsNormalizeRetirementDate
    \/ CallExtractEarliestDate

\* the date normalizers applied to bounded raw cells
SpecDate == DateInit /\ [][DateNext]_vars

(***************************************************************************)
(* Claims about the date normalizers.                                      *)
(***************************************************************************)
\* every occurrence of the long-form and of the slash-form grammar, as
\* re.finditer would list them
RECURSIVE LongFindAll(_, _)
LongFindAll(s, i) ==
    IF LongSearch(s, i) = NoMatch THEN << >>
    ELSE << LongSearch(s, i)[1] >> \o LongFindAll(s, LongSearch(s, i)[2] + 1)

RECURSIVE SlashFindAll(_, _)
SlashFindAll(s, i) ==
    IF SlashSearch(s, i) = NoMatch THEN << >>
    ELSE << SlashSearch(s, i)[1] >> \o SlashFindAll(s, SlashSearch(s, i)[2] + 1)

\* the valid calendar dates among all date-like substrings of t, any grammar
AllValidDates(t) ==
    ({ StrptimeIso(IsoFindAll(t, 1)[k]) : k \in 1..Len(IsoFindAll(t, 1)) }
    \cup { StrptimeLong(LongFindAll(t, 1)[k][1], LongFindAll(t, 1)[k][2],
                        LongFindAll(t, 1)[k][3]) : k \in 1..Len(LongFindAll(t, 1)) }
    \cup { DatetimeOf(SlashFindAll(t, 1)[k][3], SlashFindAll(t, 1)[k][1],
                      SlashFindAll(t, 1)[k][2]) : k \in 1..Len(SlashFindAll(t, 1)) })
    \ { Raised }

EarliestOfAll(text) ==
    IF Falsy(text) \/ AllValidDates(text[1]) = {} THEN None
    ELSE Some(Strftime(CHOOSE a \in AllValidDates(text[1]) :
                          \A b \in AllValidDates(text[1]) : ~DateLess(b, a)))

\* C7: normalize_date_from_text returns the earliest valid calendar date among
\* all date-like substrings of the field, whatever the grammar and however many
\* times each grammar occurs (None when there is none).
C7_EarliestOfAllOccurrences ==
    call.fn = "normalize_date_from_text" => call.ret = EarliestOfAll(call.arg)

\* the part of C7 the code keeps: with at most one long-form and at most one
\* slash-form occurrence, the result is the earliest of all valid dates
C7_EarliestWhenSingleOccurrence ==
    (/\ call.fn = "normalize_date_from_text"
     /\ ~Falsy(call.arg)
     /\ Len(LongFindAll(call.arg[1], 1)) <= 1
     /\ Len(SlashFindAll(call.arg[1], 1)) <= 1)
    => call.ret = EarliestOfAll(call.arg)

\* s is YYYY-MM-DD naming a calendar date
IsIsoDate(s) ==
    /\ Len(s) = 10
    /\ IsoMatchAt(s, 1) # NoMatch
    /\ StrptimeIso(s) # Raised

DateNormalizers ==
    { "normalize_date_from_text", "claude.normalize_retirement_date",
      "aws.normalize_retirement_date", "extract_earliest_date" }

\* C8: no date normalizer raises: each returns an ISO date string or None for
\* every input, a date-shaped text that names no calendar date included.
C8_NormalizersNeverRaise ==
    call.fn \in DateNormalizers =>
        \/ call.ret = None
        \/ Len(call.ret) = 1 /\ IsIsoDate(call.ret[1])

\* the normalizers other than the Claude script's keep C8
C8_OthersNeverRaise ==
    call.fn \in DateNormalizers \ { "claude.normalize_retirement_date" } =>
        \/ call.ret = None
        \/ Len(call.ret) = 1 /\ IsIsoDate(call.ret[1])

(***************************************************************************)
(* Model name normalization.                                               *)
(***************************************************************************)
\* str.strip()
RECURSIVE LStrip(_)
LStrip(s) == IF s # "" /\ IsSpace(Char(s, 1)) THEN LStrip(Tail(s)) ELSE s

RECURSIVE RStrip(_)
RStrip(s) ==
    IF s # "" /\ IsSpace(Char(s, Len(s))) THEN RStrip(Sub(s, 1, Len(s) - 1)) ELSE s

Strip(s) == RStrip(LStrip(s))

\* DATE_SUFFIX_RE matched at position i: a hyphen and 8 digits, then $ (the end
\* of the string, or the newline that ends the string)
DateSuffixAt(s, i) ==
    /\ i >= 1
    /\ Char(s, i) = "-"
    /\ AllDigits(s, i + 1, i + 8)
    /\ \/ i + 8 = Len(s)
       \/ i + 9 = Len(s) /\ Char(s, i + 9) = "\n"

\* DATE_SUFFIX_RE.sub("", s): $ leaves at most one position to match
DateSuffixSub(s) ==
    IF \E i \in 1..Len(s) : DateSuffixAt(s, i)
    THEN LET i == CHOOSE k \in 1..Len(s) : DateSuffixAt(s, k)
         IN  Sub(s, 1, i - 1) \o Sub(s, i + 9, Len(s))
    ELSE s

\* scrape.py normalize_model_name
normalize_model_name(name) ==
    IF Falsy(name) THEN name ELSE Some(DateSuffixSub(Strip(name[1])))

\* scrape_claude_retirements.py normalize_model_name
claude_normalize_model_name(model_name) ==
    IF Falsy(model_name) THEN model_name ELSE Some(DateSuffixSub(model_name[1]))

\* raw model cells: names with and without the date suffix, near misses of the
\* suffix, surrounding whitespace
NamePieces ==
    { "claude-3-5-haiku", "claude-2.1", "-20241022", "-2024102", "-202410221",
      "20241022", " ", "\n" }

NameCells == { None } \cup { Some(t) : t \in TextsOf(NamePieces, MaxPieces) }

\* the normalizer applied to a cell, and applied again to its own result
CallNormalizeModelName ==
    /\ call = NoCall
    /\ \E name \in NameCells :
        call' = [fn |-> "normalize_model_name", arg |-> name,
                 ret |-> normalize_model_name(name),
                 again |-> normalize_model_name(normalize_model_name(name))]
    /\ ScriptsUnchanged

CallClaudeNormalizeModelName ==
    /\ call = NoCall
    /\ \E name \in NameCells :
        call' = [fn |-> "claude.normalize_model_name", arg |-> name,
                 ret |-> claude_normalize_model_name(name),
                 again |-> claude_normalize_model_name(claude_normalize_model_name(name))]
    /\ ScriptsUnchanged

NameInit == PureInit

NameNext ==
    \/ CallNormalizeModelName
    \/ CallClaudeNormalizeModelName

\* the model name normalizers applied to bounded raw cells
SpecName == NameInit /\ [][NameNext]_vars

NameNormalizers == { "normalize_model_name", "claude.normalize_model_name" }

\* s ends with a hyphen followed by exactly 8 digits
EndsWithDateSuffix(s) ==
    /\ Len(s) >= 9
    /\ Char(s, Len(s) - 8) = "-"
    /\ AllDigits(s, Len(s) - 7, Len(s))

\* C9: normalize_model_name is idempotent for every input, and its result
\* never ends with a hyphen followed by 8 digits.
C9_NormalizeIdempotent ==
    call.fn \in NameNormalizers =>
        /\ call.again = call.ret
        /\ call.ret # None => ~EndsWithDateSuffix(call.ret[1])

(***************************************************************************)
(* Python dict, which keeps insertion order: a sequence of << key, value >>  *)
(* pairs with distinct keys.                                               *)
(***************************************************************************)
\* key in d
DictHas(d, k) == \E i \in 1..Len(d) : d[i][1] = k

\* d[key]
DictGet(d, k) == d[CHOOSE i \in 1..Len(d) : d[i][1] = k][2]

\* a bug d[key] = value could have: the key moves to the end when reassigned
DictSetMovingToEnd(d, k, v) ==
    SelectSeq(d, LAMBDA e : e[1] # k) \o << << k, v >> >>

\* d[key] = value: a new key goes last, a known key keeps its position
DictSet(d, k, v) ==
    IF DictHas(d, k)
    THEN [i \in 1..Len(d) |-> IF d[i][1] = k THEN << k, v >> ELSE d[i]]
    ELSE Append(d, << k, v >>)

\* list(d.values())
DictValues(d) == [i \in 1..Len(d) |-> d[i][2]]

\* list(d.keys())
DictKeys(d) == [i \in 1..Len(d) |-> d[i][1]]

(***************************************************************************)
(* Deduplication.                                                          *)
(***************************************************************************)
\* bool(row.get("recommended_replacement"))
HasReplacement(row) == row.recommended_replacement # ""

\* a bug of the loop body: the tie on the date is not looked at
DedupStepNoTieBreak(best, row) ==
    LET key == row.model_name
        date == StrptimeIso(row.retirement_date)
    IN  IF ~DictHas(best, key) THEN DictSet(best, key, row)
        ELSE IF DateLess(date, StrptimeIso(DictGet(best, key).retirement_date))
             THEN DictSet(best, key, row)
             ELSE best

\* one iteration of the loop of deduplicate_rows
DedupStep(best, row) ==
    LET key == row.model_name
        date == StrptimeIso(row.retirement_date)
    IN  IF ~DictHas(best, key) THEN DictSet(best, key, row)
        ELSE LET existing == DictGet(best, key)
                 existing_date == StrptimeIso(existing.retirement_date)
             IN  IF DateLess(date, existing_date) THEN DictSet(best, key, row)
                 ELSE IF date = existing_date
                         /\ HasReplacement(row) /\ ~HasReplacement(existing)
                      THEN DictSet(best, key, row)
                      ELSE best

RECURSIVE DedupLoop(_, _)
DedupLoop(best, rows) ==
    IF rows = << >> THEN best ELSE DedupLoop(DedupStep(best, Head(rows)), Tail(rows))

\* a bug the loop could have: the first row is never looked at
deduplicate_rows_skipping_first(rows) ==
    DictValues(DedupLoop(<< >>, IF rows = << >> THEN rows ELSE Tail(rows)))

\* scrape.py deduplicate_rows
deduplicate_rows(rows) == DictValues(DedupLoop(<< >>, rows))

\* one iteration of the loop of deduplicate_deprecations
DeprecationsStep(deduped, row) ==
    LET key == row.deprecated_model_name
    IN  IF ~DictHas(deduped, key) THEN DictSet(deduped, key, row)
        ELSE LET existing == DictGet(deduped, key)
                 existing_has_replacement == HasReplacement(existing)
                 current_has_replacement == HasReplacement(row)
             IN  IF ~existing_has_replacement /\ current_has_replacement
                 THEN DictSet(deduped, key, row)
                 ELSE deduped

RECURSIVE DeprecationsLoop(_, _)
DeprecationsLoop(deduped, rows) ==
    IF rows = << >> THEN deduped
    ELSE DeprecationsLoop(DeprecationsStep(deduped, Head(rows)), Tail(rows))

\* scrape_claude_retirements.py deduplicate_deprecations
deduplicate_deprecations(rows) == DictValues(DeprecationsLoop(<< >>, rows))

\* one iteration of the loop of deduplicate_by_earliest_retirement
EarliestStep(best_rows, row) ==
    LET model == row.model_name
        current_date == StrptimeIso(row.retirement_date)
    IN  IF ~DictHas(best_rows, model) THEN DictSet(best_rows, model, row)
        ELSE LET existing == DictGet(best_rows, model)
                 existing_date == StrptimeIso(existing.retirement_date)
             IN  IF DateLess(current_date, existing_date)
                 THEN DictSet(best_rows, model, row)
                 ELSE best_rows

RECURSIVE EarliestLoop(_, _)
EarliestLoop(best_rows, rows) ==
    IF rows = << >> THEN best_rows
    ELSE EarliestLoop(EarliestStep(best_rows, Head(rows)), Tail(rows))

\* scrape_openai_retirements.py deduplicate_by_earliest_retirement
deduplicate_by_earliest_retirement(rows) == DictValues(EarliestLoop(<< >>, rows))

\* rows of one source after normalization: valid ISO dates, replacement
\* possibly empty
DedupRow ==
    [source : { "claude" },
     model_name : { "claude-2.1", "claude-3-5-haiku" },
     retirement_date : { "2026-01-15", "2026-03-01", "2027-01-01" },
     recommended_replacement : { "", "claude-4", "claude-5" }]

DedupInputs == UNION { [1..n -> DedupRow] : n \in 0..MaxDedupRows }

CallDeduplicateRows ==
    /\ call = NoCall
    /\ \E rows \in DedupInputs :
        call' = [fn |-> "deduplicate_rows", arg |-> rows, ret |-> deduplicate_rows(rows)]
    /\ ScriptsUnchanged

\* rows of scrape_claude_retirements.py after its normalization loop
DeprecationRow ==
    [retirement_date : { "2026-01-15", "2026-03-01", "2027-01-01" },
     deprecated_model_name : { "claude-2.1", "claude-3-5-haiku" },
     recommended_replacement : { "", "claude-4", "claude-5" }]

DeprecationInputs == UNION { [1..n -> DeprecationRow] : n \in 0..MaxDedupRows }

\* rows that scrape_azure_foundry_retirements returns
RetirementRow ==
    [model_name : { "gpt-4", "gpt-35-turbo" },
     retirement_date : { "2026-01-15", "2026-03-01", "2027-01-01" },
     recommended_replacement : { "", "gpt-4o", "gpt-5" }]

RetirementInputs == UNION { [1..n -> RetirementRow] : n \in 0..MaxDedupRows }

\* deduplicate_rows applied to its own output
CallDeduplicateRowsTwice ==
    /\ call = NoCall
    /\ \E rows \in DedupInputs :
        LET once == deduplicate_rows(rows)
        IN  call' = [fn |-> "deduplicate_rows_twice", arg |-> rows,
                     once |-> once, ret |-> deduplicate_rows(once)]
    /\ ScriptsUnchanged

CallDeduplicateDeprecations ==
    /\ call = NoCall
    /\ \E rows \in DeprecationInputs :
        call' = [fn |-> "deduplicate_deprecations", arg |-> rows,
                 ret |-> deduplicate_deprecations(rows)]
    /\ ScriptsUnchanged

CallDeduplicateByEarliestRetirement ==
    /\ call = NoCall
    /\ \E rows \in RetirementInputs :
        call' = [fn |-> "deduplicate_by_earliest_retirement", arg |-> rows,
                 ret |-> deduplicate_by_earliest_retirement(rows)]
    /\ ScriptsUnchanged

DedupInit == PureInit

DedupNext ==
    \/ CallDeduplicateRows
    \/ CallDeduplicateRowsTwice
    \/ CallDeduplicateDeprecations
    \/ CallDeduplicateByEarliestRetirement

\* the deduplicators applied to bounded row sequences
SpecDedup == DedupInit /\ [][DedupNext]_vars

\* positions of the rows of model_name k in rows
Group(rows, k) == { i \in 1..Len(rows) : rows[i].model_name = k }

Min(S) == CHOOSE i \in S : \A j \in S : i <= j

\* the position the stated preference order selects for model_name k:
\* earliest date, then first-seen with a replacement, then first-seen
Preferred(rows, k) ==
    LET date == [i \in Group(rows, k) |-> StrptimeIso(rows[i].retirement_date)]
        earliest == { i \in DOMAIN date : \A j \in DOMAIN date : ~DateLess(date[j], date[i]) }
        replaced == { i \in earliest : rows[i].recommended_replacement # "" }
    IN  IF replaced # {} THEN Min(replaced) ELSE Min(earliest)

\* C5: for every model_name of the input, deduplicate_rows retains the row
\* with the earliest retirement_date; among the rows tied on it, the first-seen
\* one with a non-empty replacement if there is one, otherwise the first-seen.
C5_DedupPreferenceOrder ==
    call.fn = "deduplicate_rows" =>
        /\ \A i \in 1..Len(call.arg) :
               \E r \in 1..Len(call.ret) : call.ret[r].model_name = call.arg[i].model_name
        /\ \A r \in 1..Len(call.ret) :
               /\ Group(call.arg, call.ret[r].model_name) # {}
               /\ call.ret[r] = call.arg[Preferred(call.arg, call.ret[r].model_name)]

\* C5 witness: a later row replaced the first-seen one on the tie-break, with
\* three rows of one model
C5_Witness ==
    /\ call.fn = "deduplicate_rows"
    /\ Len(call.arg) = 3
    /\ Cardinality(Group(call.arg, call.arg[1].model_name)) = 3
    /\ call.arg[1].retirement_date = call.arg[3].retirement_date
    /\ DateLess(StrptimeIso(call.arg[1].retirement_date),
                StrptimeIso(call.arg[2].retirement_date))
    /\ call.arg[1].recommended_replacement = ""
    /\ call.arg[3].recommended_replacement # ""
    /\ call.ret = << call.arg[3] >>

\* position at which model_name k first appears in rows
FirstSeen(rows, k) == Min(Group(rows, k))

\* C6: the output of deduplicate_rows holds exactly one row per distinct
\* model_name of the input, ordered by the first appearance of each model_name.
C6_OnePerNameInFirstSeenOrder ==
    call.fn = "deduplicate_rows" =>
        /\ Len(call.ret) = Cardinality({ call.arg[i].model_name : i \in 1..Len(call.arg) })
        /\ \A r \in 1..Len(call.ret) : Group(call.arg, call.ret[r].model_name) # {}
        /\ \A a, b \in 1..Len(call.ret) :
               a < b => FirstSeen(call.arg, call.ret[a].model_name)
                          < FirstSeen(call.arg, call.ret[b].model_name)

\* C6 witness: the first-seen row of the first model was replaced by a later
\* row after another model had been seen, and the order is still first-seen
C6_Witness ==
    /\ call.fn = "deduplicate_rows"
    /\ Len(call.arg) = 3
    /\ call.arg[1].model_name = call.arg[3].model_name
    /\ call.arg[2].model_name # call.arg[1].model_name
    /\ call.arg[3] # call.arg[1]
    /\ call.ret = << call.arg[3], call.arg[2] >>

\* C22: deduplicate_rows applied to its own output returns that output, the
\* same rows in the same order.
C22_DedupIdempotent ==
    call.fn = "deduplicate_rows_twice" => call.ret = call.once

\* C22 witness: the first pass dropped a row and replaced the first-seen row
\* of a model by a later one, two models are left, and the second pass
\* returned them
C22_Witness ==
    /\ call.fn = "deduplicate_rows_twice"
    /\ Len(call.arg) = 3
    /\ call.arg[1].model_name = call.arg[3].model_name
    /\ call.arg[2].model_name # call.arg[1].model_name
    /\ call.arg[3] # call.arg[1]
    /\ call.once = << call.arg[3], call.arg[2] >>
    /\ call.ret = call.once

\* a row of scrape_claude_retirements.py under the column names of scrape.py
AsModelRow(row) ==
    [model_name |-> row.deprecated_model_name,
     retirement_date |-> row.retirement_date,
     recommended_replacement |-> row.recommended_replacement]

AsModelRows(rows) == [i \in 1..Len(rows) |-> AsModelRow(rows[i])]

\* C21: on every row sequence with valid ISO dates, deduplicate_deprecations
\* and deduplicate_by_earliest_retirement return the same rows, in the same
\* order, as deduplicate_rows returns on that sequence.
C21_PerSourceDeduplicatorsAgree ==
    /\ call.fn = "deduplicate_deprecations" =>
           AsModelRows(call.ret) = deduplicate_rows(AsModelRows(call.arg))
    /\ call.fn = "deduplicate_by_earliest_retirement" =>
           call.ret = deduplicate_rows(call.arg)

\* the rows of one model_name all carry the same retirement_date
OneDatePerModel(rows) ==
    \A i, j \in 1..Len(rows) :
        rows[i].model_name = rows[j].model_name
            => rows[i].retirement_date = rows[j].retirement_date

\* the rows of one model_name carry pairwise different retirement_dates
DistinctDatesPerModel(rows) ==
    \A i, j \in 1..Len(rows) :
        i # j /\ rows[i].model_name = rows[j].model_name
            => rows[i].retirement_date # rows[j].retirement_date

\* what does hold of deduplicate_deprecations: it agrees with
\* deduplicate_rows when no model_name is listed under two dates
C21_DeprecationsAgreeOnOneDatePerModel ==
    call.fn = "deduplicate_deprecations" /\ OneDatePerModel(AsModelRows(call.arg))
        => AsModelRows(call.ret) = deduplicate_rows(AsModelRows(call.arg))

\* what does hold of deduplicate_by_earliest_retirement: it agrees with
\* deduplicate_rows when no model_name is listed twice under one date
C21_EarliestAgreesOnDistinctDates ==
    call.fn = "deduplicate_by_earliest_retirement" /\ DistinctDatesPerModel(call.arg)
        => call.ret = deduplicate_rows(call.arg)

\* all three deduplicators keep one row per name in first-seen order
C21_SameNamesInSameOrder ==
    /\ call.fn = "deduplicate_deprecations" =>
           [i \in 1..Len(call.ret) |-> call.ret[i].deprecated_model_name]
               = [i \in 1..Len(deduplicate_rows(AsModelRows(call.arg))) |->
                      deduplicate_rows(AsModelRows(call.arg))[i].model_name]
    /\ call.fn = "deduplicate_by_earliest_retirement" =>
           [i \in 1..Len(call.ret) |-> call.ret[i].model_name]
               = [i \in 1..Len(deduplicate_rows(call.arg)) |->
                      deduplicate_rows(call.arg)[i].model_name]

(***************************************************************************)
(* Change detection of the multi-tab script: scrape_ms_retirements.py.     *)
(* A row is a function from the column keys it has to strings.             *)
(***************************************************************************)
\* row.get(field, "")
Get(row, field) == IF field \in DOMAIN row THEN row[field] ELSE ""

\* a bug of key_for_row: the version is left out of the identity
key_for_row_without_version(row) == << Get(row, "Type"), Get(row, "Model"), "" >>

\* key_for_row
key_for_row(row) == << Get(row, "Type"), Get(row, "Model"), Get(row, "Version") >>

\* the fields compare_snapshots compares, in its order
ComparedFields == << "Lifecycle status", "Deprecation date", "Retirement date", "Replacement model" >>

\* a bug of the field loop: it stops at the first field that differs
RECURSIVE DiffsFirstOnly(_, _, _)
DiffsFirstOnly(old_row, row, fields) ==
    IF fields = << >> THEN << >>
    ELSE IF Get(old_row, Head(fields)) # Get(row, Head(fields))
         THEN << << Head(fields), << Get(old_row, Head(fields)), Get(row, Head(fields)) >> >> >>
         ELSE DiffsFirstOnly(old_row, row, Tail(fields))

\* the loop over the compared fields: diffs[field] = (old, new) where they differ
RECURSIVE Diffs(_, _, _)
Diffs(old_row, row, fields) ==
    IF fields = << >> THEN << >>
    ELSE (IF Get(old_row, Head(fields)) # Get(row, Head(fields))
          THEN << << Head(fields), << Get(old_row, Head(fields)), Get(row, Head(fields)) >> >> >>
          ELSE << >>)
         \o Diffs(old_row, row, Tail(fields))

\* ", ".join(f"{f}: '{a}' → '{b}'" for f, (a, b) in diffs.items())
RECURSIVE DiffsText(_)
DiffsText(diffs) ==
    IF diffs = << >> THEN ""
    ELSE Head(diffs)[1] \o ": '" \o Head(diffs)[2][1] \o "' → '" \o Head(diffs)[2][2] \o "'"
         \o (IF Len(diffs) > 1 THEN ", " ELSE "") \o DiffsText(Tail(diffs))

KeyText(k) == "[" \o k[1] \o "] " \o k[2] \o " " \o k[3]

\* the events one row adds to changes: none, a "new" or an "update"
ChangesOfRow(old, row) ==
    LET k == key_for_row(row)
    IN  IF ~DictHas(old, k)
        THEN << [type |-> "new", key |-> k, old |-> None, new |-> row,
                 message |-> "New model listed in Current models: " \o KeyText(k)] >>
        ELSE LET old_row == DictGet(old, k)
                 diffs == Diffs(old_row, row, ComparedFields)
             IN  IF diffs # << >>
                 THEN << [type |-> "update", key |-> k, old |-> Some(old_row), new |-> row,
                          diffs |-> diffs,
                          message |-> "Updated fields for " \o KeyText(k) \o ": "
                                      \o DiffsText(diffs)] >>
                 ELSE << >>

\* a bug of compare_snapshots: the events of later rows are put first
RECURSIVE CompareLoopNewestFirst(_, _, _, _)
CompareLoopNewestFirst(old, rows, changes, new_snapshot) ==
    IF rows = << >> THEN << changes, new_snapshot >>
    ELSE CompareLoopNewestFirst(old, Tail(rows),
                                ChangesOfRow(old, Head(rows)) \o changes,
                                DictSet(new_snapshot, key_for_row(Head(rows)), Head(rows)))

\* compare_snapshots: << changes, new_snapshot >> after the rows were folded in
RECURSIVE CompareLoop(_, _, _, _)
CompareLoop(old, rows, changes, new_snapshot) ==
    IF rows = << >> THEN << changes, new_snapshot >>
    ELSE CompareLoop(old, Tail(rows),
                     changes \o ChangesOfRow(old, Head(rows)),
                     DictSet(new_snapshot, key_for_row(Head(rows)), Head(rows)))

\* the keys of old that no row of the new snapshot has, as "removed" events
RemovedEvents(old, new_snapshot) ==
    LET gone == SelectSeq(old, LAMBDA entry : ~DictHas(new_snapshot, entry[1]))
    IN  [i \in 1..Len(gone) |->
            [type |-> "removed", key |-> gone[i][1], old |-> Some(gone[i][2]),
             message |-> "Model no longer listed in Current models: " \o KeyText(gone[i][1])]]

\* a bug of compare_snapshots: identities that disappeared are reported
compare_snapshots_reporting_removed(old, new_rows) ==
    LET compared == CompareLoop(old, new_rows, << >>, << >>)
    IN  << compared[1] \o RemovedEvents(old, compared[2]), compared[2] >>

compare_snapshots(old, new_rows) == CompareLoop(old, new_rows, << >>, << >>)

(***************************************************************************)
(* Change detection of the unified script: scrape.py.                      *)
(* A row is [source, model_name, retirement_date, recommended_replacement].*)
(***************************************************************************)
\* the comparison of diff_rows
RowChanged(row, existing) ==
    \/ row.retirement_date # existing.retirement_date
    \/ row.recommended_replacement # existing.recommended_replacement

\* diff_rows
RECURSIVE diff_rows(_, _)
diff_rows(new_rows, existing_rows) ==
    IF new_rows = << >> THEN << >>
    ELSE LET row == Head(new_rows)
             key == << row.source, row.model_name >>
         IN  (IF ~DictHas(existing_rows, key) THEN << row >>
              ELSE IF RowChanged(row, DictGet(existing_rows, key)) THEN << row >>
              ELSE << >>)
             \o diff_rows(Tail(new_rows), existing_rows)

(***************************************************************************)
(* The change detectors applied to bounded snapshots and row lists.        *)
(***************************************************************************)
\* f restricted to the keys whose value is not "absent": a dict without them
Present(f) == [k \in { x \in DOMAIN f : f[x] # "absent" } |-> f[k]]

\* the columns write_csv names, which are the keys parse_table gives a row
MsColumns ==
    << "Type", "Model", "Version", "Lifecycle status", "Deprecation date",
       "Retirement date", "Replacement model" >>

\* every row that gives each column cs one of the values vals allows it
RECURSIVE RowsOver(_, _)
RowsOver(cs, vals) ==
    IF cs = << >> THEN { << >> }
    ELSE { (Head(cs) :> v) @@ r : v \in vals[Head(cs)], r \in RowsOver(Tail(cs), vals) }

\* rows of the "Current models" tables: two identities that differ in the
\* version (the second table has no version column), every compared field
\* with two values, the deprecation column missing in the older layout
MsRowValues ==
    ("Type" :> { "Text" }) @@ ("Model" :> { "gpt-4" }) @@ ("Version" :> { "0613", "absent" })
    @@ ("Lifecycle status" :> { "GA" })
    @@ ("Deprecation date" :> { "absent", "2025-12-01" })
    @@ ("Retirement date" :> { "2026-01-15", "2026-03-01" })
    @@ ("Replacement model" :> { "", "gpt-5" })

MsRow == { Present(r) : r \in RowsOver(MsColumns, MsRowValues) }

\* rows a prior snapshot may hold: rows of an earlier page state, which can
\* differ from a new row in any subset of the compared fields
MsOldRowValues ==
    ("Type" :> { "Text" }) @@ ("Model" :> { "gpt-4" }) @@ ("Version" :> { "0613", "absent" })
    @@ ("Lifecycle status" :> { "GA", "Preview" })
    @@ ("Deprecation date" :> { "absent", "2025-12-01" })
    @@ ("Retirement date" :> { "2026-01-15" })
    @@ ("Replacement model" :> { "gpt-5" })

MsOldRow == { Present(r) : r \in RowsOver(MsColumns, MsOldRowValues) }

MsKeys == << << "Text", "gpt-4", "0613" >>, << "Text", "gpt-4", "" >> >>

\* the dicts that map some of the keys ks (in that order) to one of the rows
\* paired with the key in items
RECURSIVE DictsOver(_, _)
DictsOver(ks, items) ==
    IF ks = << >> THEN { << >> }
    ELSE LET rest == DictsOver(Tail(ks), items)
         IN  rest \cup { << e >> \o d : e \in { x \in items : x[1] = Head(ks) }, d \in rest }

MsSnapshots == DictsOver(MsKeys, { << key_for_row(r), r >> : r \in MsOldRow })

MsRowLists == UNION { [1..n -> MsRow] : n \in 0..MaxNewRows }

CallCompareSnapshots ==
    /\ call = NoCall
    /\ \E old \in MsSnapshots, new_rows \in MsRowLists :
        call' = [fn |-> "compare_snapshots", old |-> old, new_rows |-> new_rows,
                 changes |-> compare_snapshots(old, new_rows)[1],
                 new_snapshot |-> compare_snapshots(old, new_rows)[2]]
    /\ ScriptsUnchanged

\* rows of the unified script: the same model on two sources
UnifiedRow ==
    [source : { "claude", "aws" },
     model_name : { "claude-2.1" },
     retirement_date : { "2026-01-15", "2026-03-01" },
     recommended_replacement : { "", "claude-4" }]

UnifiedKeys == << << "claude", "claude-2.1" >>, << "aws", "claude-2.1" >> >>

UnifiedKey(row) == << row.source, row.model_name >>

UnifiedExisting == DictsOver(UnifiedKeys, { << UnifiedKey(r), r >> : r \in UnifiedRow })

UnifiedRowLists == UNION { [1..n -> UnifiedRow] : n \in 0..MaxNewRows }

CallDiffRows ==
    /\ call = NoCall
    /\ \E existing \in UnifiedExisting, new_rows \in UnifiedRowLists :
        call' = [fn |-> "diff_rows", old |-> existing, new_rows |-> new_rows,
                 changes |-> diff_rows(new_rows, existing)]
    /\ ScriptsUnchanged

DiffInit == PureInit

DiffNext ==
    \/ CallCompareSnapshots
    \/ CallDiffRows

\* the change detectors applied to bounded snapshots and row lists
SpecDiff == DiffInit /\ [][DiffNext]_vars

(***************************************************************************)
(* Claims about change detection.                                          *)
(***************************************************************************)
\* the value a row carries in a column, the empty string when it has none
FieldValue(row, f) == IF f \in DOMAIN row THEN row[f] ELSE ""

\* the identity (Type, Model, Version) of a row
Identity(row) == << FieldValue(row, "Type"), FieldValue(row, "Model"), FieldValue(row, "Version") >>

\* the prior snapshot old has an entry for identity k / that entry
InSnapshot(old, k) == \E i \in 1..Len(old) : old[i][1] = k

PriorRow(old, k) == old[CHOOSE i \in 1..Len(old) : old[i][1] = k][2]

\* the comparable fields in which two rows differ
DifferingFields(a, b) ==
    { f \in { "Lifecycle status", "Deprecation date", "Retirement date", "Replacement model" } :
        FieldValue(a, f) # FieldValue(b, f) }

\* C1: compare_snapshots emits a "new" event for a row if and only if the
\* row's identity is absent from the prior snapshot (one event per such row,
\* carrying the row and its identity), and diff_rows reports every row whose
\* (source, model_name) key is absent from the existing rows.
C1_NewExactlyForUnseen ==
    /\ call.fn = "compare_snapshots" =>
         LET news == SelectSeq(call.changes, LAMBDA c : c.type = "new")
             unseen == SelectSeq(call.new_rows, LAMBDA r : ~InSnapshot(call.old, Identity(r)))
         IN  /\ Len(news) = Len(unseen)
             /\ \A i \in 1..Len(news) :
                    news[i].new = unseen[i] /\ news[i].key = Identity(unseen[i])
    /\ call.fn = "diff_rows" =>
         \A i \in 1..Len(call.new_rows) :
             ~InSnapshot(call.old, << call.new_rows[i].source, call.new_rows[i].model_name >>)
                 => \E j \in 1..Len(call.changes) : call.changes[j] = call.new_rows[i]

\* C1 witness: compare_snapshots saw a row of a known identity and then a row
\* of an unseen identity that differs from it in the version only, and emitted
\* "new" for the second alone
C1_Witness ==
    /\ call.fn = "compare_snapshots"
    /\ Len(call.new_rows) = 2
    /\ InSnapshot(call.old, Identity(call.new_rows[1]))
    /\ ~InSnapshot(call.old, Identity(call.new_rows[2]))
    /\ Len(SelectSeq(call.changes, LAMBDA c : c.type = "new")) = 1
    /\ call.changes[Len(call.changes)].type = "new"
    /\ call.changes[Len(call.changes)].new = call.new_rows[2]

\* the diffs mapping of an update event as a function field -> (old, new)
DiffsMap(diffs) == [f \in { diffs[i][1] : i \in 1..Len(diffs) } |-> DictGet(diffs, f)]

\* C2: for every row whose identity is in the prior snapshot, compare_snapshots
\* emits an "update" event if and only if a comparable field differs, its diffs
\* hold exactly the differing fields as (old value, new value); and a row list
\* identical to the prior snapshot gives no event (in diff_rows too).
C2_UpdateExactlyForDiffering ==
    /\ call.fn = "compare_snapshots" =>
         LET ups == SelectSeq(call.changes, LAMBDA c : c.type = "update")
             changed == SelectSeq(call.new_rows,
                            LAMBDA r : /\ InSnapshot(call.old, Identity(r))
                                       /\ DifferingFields(PriorRow(call.old, Identity(r)), r) # {})
         IN  /\ Len(ups) = Len(changed)
             /\ \A i \in 1..Len(ups) :
                    LET prior == PriorRow(call.old, Identity(changed[i]))
                    IN  /\ ups[i].new = changed[i]
                        /\ ups[i].key = Identity(changed[i])
                        /\ DOMAIN DiffsMap(ups[i].diffs) = DifferingFields(prior, changed[i])
                        /\ \A f \in DOMAIN DiffsMap(ups[i].diffs) :
                               DiffsMap(ups[i].diffs)[f]
                                   = << FieldValue(prior, f), FieldValue(changed[i], f) >>
             /\ (\A i \in 1..Len(call.new_rows) :
                     /\ InSnapshot(call.old, Identity(call.new_rows[i]))
                     /\ PriorRow(call.old, Identity(call.new_rows[i])) = call.new_rows[i])
                => call.changes = << >>
    /\ call.fn = "diff_rows" =>
         ((\A i \in 1..Len(call.new_rows) :
              LET k == << call.new_rows[i].source, call.new_rows[i].model_name >>
              IN  InSnapshot(call.old, k) /\ PriorRow(call.old, k) = call.new_rows[i])
          => call.changes = << >>)

\* C2 witness: one row came back unchanged and gave no event, the other
\* differs from its prior row in two fields and gave an update with both
C2_Witness ==
    /\ call.fn = "compare_snapshots"
    /\ Len(call.new_rows) = 2
    /\ InSnapshot(call.old, Identity(call.new_rows[1]))
    /\ PriorRow(call.old, Identity(call.new_rows[1])) = call.new_rows[1]
    /\ Len(call.changes) = 1
    /\ call.changes[1].type = "update"
    /\ call.changes[1].new = call.new_rows[2]
    /\ Len(call.changes[1].diffs) = 2

(***************************************************************************)
(* The snapshot store of scrape_ms_retirements.py.  The file is absent     *)
(* (NoFile) or holds a JSON object: a dict from joined key to row.         *)
(***************************************************************************)
\* "||".join(k)
RECURSIVE JoinKey(_)
JoinKey(k) ==
    IF k = << >> THEN ""
    ELSE IF Len(k) = 1 THEN k[1]
    ELSE k[1] \o "||" \o JoinKey(Tail(k))

\* position of the leftmost "||" of s at or after i, 0 when there is none
RECURSIVE FindSep(_, _)
FindSep(s, i) ==
    IF i + 1 > Len(s) THEN 0
    ELSE IF Sub(s, i, i + 1) = "||" THEN i
    ELSE FindSep(s, i + 1)

\* tuple(k.split("||"))
RECURSIVE SplitKey(_)
SplitKey(s) ==
    IF FindSep(s, 1) = 0 THEN << s >>
    ELSE << Sub(s, 1, FindSep(s, 1) - 1) >> \o SplitKey(Sub(s, FindSep(s, 1) + 2, Len(s)))

\* {"||".join(k): v for k, v in snapshot.items()}
RECURSIVE Serial(_, _)
Serial(snapshot, acc) ==
    IF snapshot = << >> THEN acc
    ELSE Serial(Tail(snapshot), DictSet(acc, JoinKey(Head(snapshot)[1]), Head(snapshot)[2]))

\* {tuple(k.split("||")): v for k, v in raw.items()}
RECURSIVE Keyed(_, _)
Keyed(raw, acc) ==
    IF raw = << >> THEN acc
    ELSE Keyed(Tail(raw), DictSet(acc, SplitKey(Head(raw)[1]), Head(raw)[2]))


\* a file that open(path, "w") truncated and that received only the first n
\* parts of its content before the write stopped
Truncated(content, n) == << SubSeq(content, 1, n), "truncated" >>

\* what a write of content that fails or is killed leaves of the file: the
\* file as it was (open failed), or any beginning of the new content
FailedWrites(file, content) ==
    { file } \cup { Truncated(content, n) : n \in 0..Len(content) }

\* json.load accepts the text: it is a complete JSON object
IsJsonObject(file) == Len(file) = 1

\* load_snapshot returns a mapping: there is no file, or json.load accepts it
IsLoadable(file) == file = NoFile \/ IsJsonObject(file)

\* save_snapshot: the content of the file after the write
save_snapshot(snapshot) == << Serial(snapshot, << >>) >>

\* load_snapshot of a file that is absent or holds a JSON object
load_snapshot(file) ==
    IF file = NoFile THEN << >>
    ELSE IF ~IsJsonObject(file) THEN Raised
    ELSE Keyed(file[1], << >>)

\* identities as the tables can carry them: empty components, and components
\* holding the characters of the separator
SnapshotKeys ==
    { << t, m, v >> : t \in { "Text" }, m \in { "", "gpt-4", "gpt-4|", "gpt||4" },
                      v \in { "", "0613", "|0613" } }

SnapshotRows == { ("Retirement date" :> d) : d \in { "2026-01-15", "2026-03-01" } }

\* the dicts of n entries with distinct keys of K and values of R
RECURSIVE DictsOfSize(_, _, _)
DictsOfSize(n, K, R) ==
    IF n = 0 THEN { << >> }
    ELSE { Append(d, << k, r >>) :
             d \in DictsOfSize(n - 1, K, R), k \in K, r \in R }

WellFormed(d) == \A i, j \in 1..Len(d) : d[i][1] = d[j][1] => i = j

SnapshotInputs ==
    { d \in UNION { DictsOfSize(n, SnapshotKeys, SnapshotRows) : n \in 0..MaxSnapshotKeys } :
        WellFormed(d) }

\* save_snapshot(X, path) followed by load_snapshot(path)
CallSaveThenLoad ==
    /\ call = NoCall
    /\ \E X \in SnapshotInputs :
        call' = [fn |-> "save_then_load", arg |-> X, file |-> save_snapshot(X),
                 ret |-> load_snapshot(save_snapshot(X))]
    /\ ScriptsUnchanged

\* load_snapshot(path) when no snapshot was ever saved
CallLoadMissing ==
    /\ call = NoCall
    /\ call' = [fn |-> "load_missing", file |-> NoFile, ret |-> load_snapshot(NoFile)]
    /\ ScriptsUnchanged

SnapshotInit == PureInit

SnapshotNext ==
    \/ CallSaveThenLoad
    \/ CallLoadMissing

\* the snapshot store applied to bounded mappings
SpecSnapshot == SnapshotInit /\ [][SnapshotNext]_vars

\* a dict as a mapping: what == of two Python dicts compares
Mapping(d) == [k \in { d[i][1] : i \in 1..Len(d) } |-> DictGet(d, k)]

\* C10: save_snapshot(X) followed by load_snapshot returns a mapping equal
\* to X, for every well-formed X: the empty mapping, identities with empty
\* components and identities whose components hold separator characters.
C10_SnapshotRoundTrip ==
    call.fn = "save_then_load" => Mapping(call.ret) = Mapping(call.arg)

\* the round trip is exact when no component holds the character "|"
C10_RoundTripWithoutSeparatorCharacters ==
    (/\ call.fn = "save_then_load"
     /\ \A i \in 1..Len(call.arg) : \A c \in 1..3 :
            \A p \in 1..Len(call.arg[i][1][c]) : Char(call.arg[i][1][c], p) # "|")
    => Mapping(call.ret) = Mapping(call.arg)

(***************************************************************************)
(* The unified script scrape.py: scrapers, feed, CSV and __main__.         *)
(* A raw row is the text of the cells of one table row:                    *)
(* [model, date, replacement].                                             *)
(***************************************************************************)
CLAUDE_URL == "https://platform.claude.com/docs/en/about-claude/model-deprecations"

AWS_URL == "https://docs.aws.amazon.com/bedrock/latest/userguide/model-lifecycle.html"

AZURE_URL == "https://learn.microsoft.com/en-us/azure/ai-foundry/openai/concepts/model-retirements"

\* the row loop of scrape_claude and scrape_azure: a row whose date cell gives
\* no date is skipped
RECURSIVE ScrapedRows(_, _)
ScrapedRows(source, raw) ==
    IF raw = << >> THEN << >>
    ELSE LET date == normalize_date_from_text(Some(Head(raw).date))
         IN  (IF Falsy(date) THEN << >>
              ELSE << [source |-> source,
                       model_name |-> normalize_model_name(Some(Head(raw).model))[1],
                       retirement_date |-> date[1],
                       recommended_replacement |->
                           normalize_model_name(Some(Head(raw).replacement))[1]] >>)
             \o ScrapedRows(source, Tail(raw))

\* the row loop of scrape_aws: the replacement is always empty
RECURSIVE AwsScrapedRows(_)
AwsScrapedRows(raw) ==
    IF raw = << >> THEN << >>
    ELSE LET date == normalize_date_from_text(Some(Head(raw).date))
         IN  (IF Falsy(date) THEN << >>
              ELSE << [source |-> AWS_URL,
                       model_name |-> normalize_model_name(Some(Head(raw).model))[1],
                       retirement_date |-> date[1],
                       recommended_replacement |-> ""] >>)
             \o AwsScrapedRows(Tail(raw))

scrape_claude(raw) == deduplicate_rows(ScrapedRows(CLAUDE_URL, raw))

scrape_aws(raw) == deduplicate_rows(AwsScrapedRows(raw))

scrape_azure(raw) == deduplicate_rows(ScrapedRows(AZURE_URL, raw))

\* the <item> write_rss builds for one row, at wall-clock time now
RssItem(row, now) ==
    [title |-> row.model_name \o " retirement update",
     description |->
         "Source: " \o row.source \o "\nModel: " \o row.model_name
         \o "\nRetirement date: " \o row.retirement_date
         \o (IF row.recommended_replacement # ""
             THEN "\nRecommended replacement: " \o row.recommended_replacement
             ELSE ""),
     guid |-> row.source \o "|" \o row.model_name \o "|" \o row.retirement_date,
     pubDate |-> now]

\* scrape.py write_rss: the content of the feed file after the write
write_rss(rows, now) == << [i \in 1..Len(rows) |-> RssItem(rows[i], now)] >>

\* scrape.py write_csv: the content of the file after the write
write_csv(rows) == << rows >>

\* scrape.py load_existing_csv: a dict keyed by (source, model_name)
RECURSIVE ExistingOf(_, _)
ExistingOf(rows, existing) ==
    IF rows = << >> THEN existing
    ELSE ExistingOf(Tail(rows),
                    DictSet(existing, << Head(rows).source, Head(rows).model_name >>, Head(rows)))

load_existing_csv(file) == ExistingOf(file[1], << >>)

\* the tables the pages can show
ClaudeRawRow ==
    [model : { "claude-2.1-20231121" },
     date : { "January 15, 2026", "Not sooner than March 1, 2026", "TBD" },
     replacement : { "", "claude-4-20250514" }]

AwsRawRow ==
    [model : { "claude-2.1" }, date : { "No sooner than 3/1/2026" }, replacement : { "" }]

AzureRawRow ==
    [model : { "gpt-4" }, date : { "2026-03-01 or 2026-01-15" }, replacement : { "gpt-5" }]

TablesOf(R) == UNION { [1..n -> R] : n \in 0..MaxTableRows }

\* __main__ lines 374-377: all_rows for every state of the three pages
AllRowsOfPages ==
    { scrape_claude(c) \o scrape_aws(a) \o scrape_azure(z) :
        c \in TablesOf(ClaudeRawRow), a \in TablesOf(AwsRawRow), z \in TablesOf(AzureRawRow) }

\* __main__ lines 374-380: the three scrapes; no row at all ends the run with
\* RuntimeError before anything is written
UScrape ==
    /\ u_pc = "idle"
    /\ u_runs < MaxRuns
    /\ \E all_rows \in AllRowsOfPages :
        /\ u_all_rows' = all_rows
        /\ u_pc' = IF all_rows = << >> THEN "idle" ELSE "scraped"
        /\ u_outcome' = IF all_rows = << >> THEN "failed" ELSE "running"
    /\ u_runs' = u_runs + 1
    /\ u_changes' = << >>
    /\ u_prev_rows' = IF u_outcome \in { "first", "nochange", "changed" }
                      THEN Some(u_all_rows) ELSE u_prev_rows
    /\ UNCHANGED << call, msVars, u_csv, u_changes_csv, u_rss >>

\* __main__ lines 385-386: first run, the CSV is written
UFirstWriteCsv ==
    /\ u_pc = "scraped"
    /\ u_csv = NoFile
    /\ u_csv' = write_csv(u_all_rows)
    /\ u_pc' = "first_csv"
    /\ UNCHANGED << call, msVars, u_all_rows, u_changes, u_changes_csv, u_rss, u_runs, u_outcome,
                    u_prev_rows >>

\* __main__ lines 387-389: first run, the feed is written with every row
UFirstWriteRss ==
    /\ u_pc = "first_csv"
    /\ u_rss' = write_rss(u_all_rows, u_runs)
    /\ u_pc' = "idle"
    /\ u_outcome' = "first"
    /\ UNCHANGED << call, msVars, u_all_rows, u_changes, u_csv, u_changes_csv, u_runs, u_prev_rows >>

\* __main__ lines 392-397: the rows are compared with the CSV; no change ends
\* the run
UDiff ==
    /\ u_pc = "scraped"
    /\ u_csv # NoFile
    /\ u_changes' = diff_rows(u_all_rows, load_existing_csv(u_csv))
    /\ u_pc' = IF u_changes' = << >> THEN "idle" ELSE "diffed"
    /\ u_outcome' = IF u_changes' = << >> THEN "nochange" ELSE "running"
    /\ UNCHANGED << call, msVars, u_all_rows, u_csv, u_changes_csv, u_rss, u_runs, u_prev_rows >>

\* __main__ lines 399-400: the changed rows go to the changes CSV
UWriteChangesCsv ==
    /\ u_pc = "diffed"
    /\ u_changes_csv' = write_csv(u_changes)
    /\ u_pc' = "changes_csv"
    /\ UNCHANGED << call, msVars, u_all_rows, u_changes, u_csv, u_rss, u_runs, u_outcome, u_prev_rows >>

\* __main__ lines 401-403: the feed is rewritten with every row
UWriteRss ==
    /\ u_pc = "changes_csv"
    /\ u_rss' = write_rss(u_all_rows, u_runs)
    /\ u_pc' = "idle"
    /\ u_outcome' = "changed"
    /\ UNCHANGED << call, msVars, u_all_rows, u_changes, u_csv, u_changes_csv, u_runs, u_prev_rows >>

UnifiedInit == call = NoCall /\ UnifiedIdle /\ MsIdle

UnifiedNext ==
    \/ UScrape
    \/ UFirstWriteCsv
    \/ UFirstWriteRss
    \/ UDiff
    \/ UWriteChangesCsv
    \/ UWriteRss

\* repeated runs of scrape.py
SpecUnified == UnifiedInit /\ [][UnifiedNext]_vars

(***************************************************************************)
(* The multi-tab script: main() of scrape_ms_retirements.py, run again     *)
(* and again over the files it leaves behind.                              *)
(***************************************************************************)
MS_URL_BASE ==
    "https://learn.microsoft.com/en-us/azure/ai-foundry/openai/concepts/model-retirements"

\* TAB_MAP, as a dict
TAB_MAP ==
    << << "Text", "text" >>, << "Audio", "audio" >>, << "Image and video", "image" >>,
       << "Embedding", "embedding" >> >>

\* the printable ASCII characters in code point order, 32 to 95 and 97 to 126
AsciiLow == " !\"#$%&'()*+,-./0123456789:;<=>?@ABCDEFGHIJKLMNOPQRSTUVWXYZ[\\]^_"

AsciiHigh == "abcdefghijklmnopqrstuvwxyz{|}~"

\* ord(c)
Ord(c) ==
    IF \E i \in 1..Len(AsciiLow) : Char(AsciiLow, i) = c
    THEN 31 + (CHOOSE i \in 1..Len(AsciiLow) : Char(AsciiLow, i) = c)
    ELSE 96 + (CHOOSE i \in 1..Len(AsciiHigh) : Char(AsciiHigh, i) = c)

\* a < b for Python strings
RECURSIVE StrLess(_, _)
StrLess(a, b) ==
    IF b = "" THEN FALSE
    ELSE IF a = "" THEN TRUE
    ELSE IF Char(a, 1) = Char(b, 1) THEN StrLess(Tail(a), Tail(b))
    ELSE Ord(Char(a, 1)) < Ord(Char(b, 1))

\* type_order.get(r.get("Type"), 99)
type_order(row) ==
    LET t == IF "Type" \in DOMAIN row THEN row["Type"] ELSE "absent"
    IN  CASE t = "Text" -> 0
          [] t = "Audio" -> 1
          [] t = "Image and video" -> 2
          [] t = "Embedding" -> 3
          [] OTHER -> 99

\* the sort key of main() puts a before b
SortKeyLess(a, b) ==
    \/ type_order(a) < type_order(b)
    \/ /\ type_order(a) = type_order(b)
       /\ \/ StrLess(Get(a, "Model"), Get(b, "Model"))
          \/ /\ Get(a, "Model") = Get(b, "Model")
             /\ StrLess(Get(a, "Version"), Get(b, "Version"))

\* row put into a sorted list after every row that does not sort after it
RECURSIVE InsertSorted(_, _)
InsertSorted(row, sorted) ==
    IF sorted = << >> THEN << row >>
    ELSE IF SortKeyLess(row, Head(sorted)) THEN << row >> \o sorted
    ELSE << Head(sorted) >> \o InsertSorted(row, Tail(sorted))

\* rows.sort(key=...): a stable sort
RECURSIVE SortRows(_)
SortRows(rows) ==
    IF rows = << >> THEN << >>
    ELSE InsertSorted(rows[Len(rows)], SortRows(SubSeq(rows, 1, Len(rows) - 1)))

\* write_csv of scrape_ms_retirements.py: every row with exactly the columns
ms_write_csv(rows) ==
    << [i \in 1..Len(rows) |->
          [k \in { MsColumns[j] : j \in 1..Len(MsColumns) } |-> Get(rows[i], k)]] >>

\* make_tabs_link
make_tabs_link(type_label) ==
    MS_URL_BASE \o "?tabs="
    \o (IF DictHas(TAB_MAP, type_label) THEN DictGet(TAB_MAP, type_label) ELSE "text")

\* s.replace(c, by) for a single character c
RECURSIVE Replace(_, _, _)
Replace(s, c, by) ==
    IF \A i \in 1..Len(s) : Char(s, i) # c THEN s
    ELSE IF Len(s) = 1 THEN (IF s = c THEN by ELSE s)
    ELSE LET half == Len(s) \div 2
         IN  Replace(SubSeq(s, 1, half), c, by) \o Replace(SubSeq(s, half + 1, Len(s)), c, by)

escape_xml(s) == Replace(Replace(Replace(s, "&", "&amp;"), "<", "&lt;"), ">", "&gt;")

\* "\n".join of the lines of an update, one per differing field
RECURSIVE DiffLines(_)
DiffLines(diffs) ==
    IF diffs = << >> THEN ""
    ELSE Head(diffs)[1] \o ": '" \o Head(diffs)[2][1] \o "' → '" \o Head(diffs)[2][2] \o "'"
         \o (IF Len(diffs) > 1 THEN "\n" ELSE "") \o DiffLines(Tail(diffs))

\* the synthetic event of a run that found no previous snapshot
BaselineEvent ==
    [type |-> "baseline", key |-> << "-", "-", "-" >>,
     message |-> "Baseline created; snapshot initialized."]

\* the <item> write_rss builds for one change at wall-clock time now.  The
\* last part of the guid is hash() of a string that holds the timestamp; the
\* hash of a str is salted per process, and now names the process as well.
MsRssItem(ch, now) ==
    [title |-> escape_xml(ch.message),
     link |-> make_tabs_link(ch.key[1]),
     guid |-> [text |-> escape_xml(ch.key[1] \o "|" \o ch.key[2] \o "|" \o ch.key[3] \o "|"),
               hash |-> << ch.key[2] \o ch.key[3], now >>],
     pubDate |-> now,
     description |->
         escape_xml(CASE ch.type = "new" -> "New row detected in Current models table."
                      [] ch.type = "update" -> DiffLines(ch.diffs)
                      [] ch.type = "baseline" -> "Initial baseline snapshot created."
                      [] OTHER -> "")]

\* the logical change a feed entry of the multi-tab script reports: the
\* identity (the guid up to the hash), the kind and the changed fields
LogicalChange(item) == << item.guid.text, item.title, item.description >>

\* the logical changes that the entries of a feed file report
ReportedIn(file) ==
    IF file = NoFile THEN {}
    ELSE { LogicalChange(file[1].items[i]) : i \in 1..Len(file[1].items) }

\* the logical changes of the events of compare_snapshots that a snapshot
\* saved over a previous one takes in
AbsorbedBy(old_snapshot, changes) ==
    IF old_snapshot = << >> THEN {}
    ELSE { LogicalChange(MsRssItem(changes[i], 0)) : i \in 1..Len(changes) }

\* the position of the first c in s from position i on, 0 when there is none
RECURSIVE FindChar(_, _, _)
FindChar(s, c, i) ==
    IF i > Len(s) THEN 0
    ELSE IF Char(s, i) = c THEN i
    ELSE FindChar(s, c, i + 1)

\* the text of an XML text node as the parser returns it: the entities
\* escape_xml writes are decoded, left to right
RECURSIVE xml_text(_)
xml_text(s) ==
    IF \A i \in 1..Len(s) : Char(s, i) # "&" THEN s
    ELSE LET i == FindChar(s, "&", 1)
             rest == SubSeq(s, i, Len(s))
             before == SubSeq(s, 1, i - 1)
         IN  IF SubSeq(rest, 1, 5) = "&amp;" /\ Len(rest) >= 5
             THEN before \o "&" \o xml_text(SubSeq(rest, 6, Len(rest)))
             ELSE IF SubSeq(rest, 1, 4) = "&lt;" /\ Len(rest) >= 4
             THEN before \o "<" \o xml_text(SubSeq(rest, 5, Len(rest)))
             ELSE IF SubSeq(rest, 1, 4) = "&gt;" /\ Len(rest) >= 4
             THEN before \o ">" \o xml_text(SubSeq(rest, 5, Len(rest)))
             ELSE before \o "&" \o xml_text(SubSeq(rest, 2, Len(rest)))

\* str(item) of a parsed <item>: every text is written with & < > escaped
ItemString(item) ==
    [item EXCEPT !.title = escape_xml(xml_text(@)),
                 !.link = escape_xml(xml_text(@)),
                 !.guid = [@ EXCEPT !.text = escape_xml(xml_text(@))],
                 !.description = escape_xml(xml_text(@))]

\* a bug of read_existing_rss_items: the parse fails and the feed starts fresh
read_existing_rss_items_parse_fails(file) == << >>

\* read_existing_rss_items: the <item> elements of the feed file, in order,
\* parsed and converted back to XML strings; of a file that was cut short,
\* the elements that were written completely
read_existing_rss_items(file) ==
    IF file = NoFile THEN << >>
    ELSE [i \in 1..Len(file[1].items) |-> ItemString(file[1].items[i])]

\* write_rss of scrape_ms_retirements.py: the content of the feed file after
\* the write, the entries of this run before the entries read back
ms_write_rss(changes, file, now) ==
    << [pubDate |-> now,
        items |-> [i \in 1..Len(changes) |-> MsRssItem(changes[i], now)]
                  \o read_existing_rss_items(file)] >>

\* rows parse_current_models may return: two states of one model, a second
\* text model and an audio model whose date cell is free text, under the
\* columns of the old table layout; parse_table stores the text of a cell
MsPageRow ==
    { ("Type" :> "Text") @@ ("Model" :> "gpt-4") @@ ("Version" :> "0613")
      @@ ("Lifecycle status" :> "GA") @@ ("Retirement date" :> d)
      @@ ("Replacement model" :> "gpt-5") : d \in { "2026-01-15", "2026-03-01" } }
    \cup
    { ("Type" :> "Text") @@ ("Model" :> "gpt-35-turbo") @@ ("Version" :> "0125")
      @@ ("Lifecycle status" :> "GA") @@ ("Retirement date" :> "2026-01-15")
      @@ ("Replacement model" :> ""),
      ("Type" :> "Audio") @@ ("Model" :> "whisper") @@ ("Version" :> "001")
      @@ ("Lifecycle status" :> "GA")
      @@ ("Retirement date" :> "No earlier than March 1, 2026")
      @@ ("Replacement model" :> "") }

MsPages == UNION { [1..n -> MsPageRow] : n \in 0..MaxPageRows }

\* main() line 404 for every page: the rows after rows.sort
SortedPage == [page \in MsPages |-> SortRows(page)]

\* main() lines 399-404: the page is fetched and parsed and the rows sorted;
\* a failed request or a page without the section ends the run
MsFetchParse ==
    /\ m_pc = "idle"
    /\ m_runs < MaxRuns
    /\ \/ /\ \E page \in MsPages : m_rows' = SortedPage[page]
          /\ m_pc' = "sorted"
          /\ m_outcome' = "running"
       \/ /\ m_rows' = << >>
          /\ m_pc' = "idle"
          /\ m_outcome' = "failed"
    /\ m_runs' = m_runs + 1
    /\ m_prev_rows' = IF m_outcome = "done" THEN Some(m_rows) ELSE m_prev_rows
    /\ UNCHANGED << call, unifiedVars, m_faults, m_old_snapshot, m_changes, m_new_snapshot, m_csv,
                    m_snapshot, m_rss, m_prev_items >>
    /\ m_start_snapshot' = m_snapshot
    /\ m_start_rss' = m_rss
    /\ UNCHANGED m_pending

\* main() line 407
MsWriteCsv ==
    /\ m_pc = "sorted"
    /\ m_csv' = ms_write_csv(m_rows)
    /\ m_pc' = "csv"
    /\ UNCHANGED << call, unifiedVars, m_faults, m_rows, m_old_snapshot, m_changes, m_new_snapshot,
                    m_snapshot, m_rss, m_runs, m_outcome, m_prev_rows, m_prev_items, m_start_snapshot, m_start_rss >>
    /\ UNCHANGED m_pending

\* main() lines 410-411
MsCompare ==
    /\ m_pc = "csv"
    /\ IsLoadable(m_snapshot)
    /\ LET old_snapshot == load_snapshot(m_snapshot)
           compared == compare_snapshots(old_snapshot, m_rows)
       IN  /\ m_old_snapshot' = old_snapshot
           /\ m_changes' = compared[1]
           /\ m_new_snapshot' = compared[2]
    /\ m_pc' = "compared"
    /\ UNCHANGED << call, unifiedVars, m_faults, m_rows, m_csv, m_snapshot, m_rss, m_runs, m_outcome,
                    m_prev_rows, m_prev_items, m_start_snapshot, m_start_rss >>
    /\ UNCHANGED m_pending

\* main() line 414
MsSaveSnapshot ==
    /\ m_pc = "compared"
    /\ m_snapshot' = save_snapshot(m_new_snapshot)
    /\ m_pending' = m_pending \cup AbsorbedBy(m_old_snapshot, m_changes)
    /\ m_pc' = "saved"
    /\ UNCHANGED << call, unifiedVars, m_faults, m_rows, m_old_snapshot, m_changes, m_new_snapshot,
                    m_csv, m_rss, m_runs, m_outcome, m_prev_rows, m_prev_items, m_start_snapshot, m_start_rss >>

\* main() lines 417-420: without a previous snapshot the changes are replaced
\* by the baseline entry; the feed is written
MsWriteRss ==
    /\ m_pc = "saved"
    /\ LET changes == IF m_old_snapshot = << >> THEN << BaselineEvent >> ELSE m_changes
       IN  /\ m_changes' = changes
           /\ m_rss' = ms_write_rss(changes, m_rss, m_runs)
    /\ m_prev_items' = read_existing_rss_items(m_rss)
    /\ m_pending' = m_pending \ ReportedIn(m_rss')
    /\ m_pc' = "idle"
    /\ m_outcome' = "done"
    /\ UNCHANGED << call, unifiedVars, m_faults, m_rows, m_old_snapshot, m_new_snapshot, m_csv,
                    m_snapshot, m_runs, m_prev_rows, m_start_snapshot, m_start_rss >>

\* main() line 407, failing: write_csv raises or the process is killed in it
MsWriteCsvFails ==
    /\ m_pc = "sorted"
    /\ m_csv' \in FailedWrites(m_csv, ms_write_csv(m_rows)[1])
    /\ m_pc' = "idle"
    /\ m_outcome' = "csv_failed"
    /\ m_faults < MaxFaults
    /\ m_faults' = m_faults + 1
    /\ UNCHANGED << call, unifiedVars, m_rows, m_old_snapshot, m_changes, m_new_snapshot,
                    m_snapshot, m_rss, m_runs, m_prev_rows, m_prev_items, m_start_snapshot,
                    m_start_rss >>
    /\ UNCHANGED m_pending

\* main() line 410, failing: json.load raises on a snapshot file that is not
\* a JSON object, and main() does not catch it
MsLoadFails ==
    /\ m_pc = "csv"
    /\ ~IsLoadable(m_snapshot)
    /\ load_snapshot(m_snapshot) = Raised
    /\ m_pc' = "idle"
    /\ m_outcome' = "load_failed"
    /\ UNCHANGED << call, unifiedVars, m_faults, m_rows, m_old_snapshot, m_changes, m_new_snapshot,
                    m_csv, m_snapshot, m_rss, m_runs, m_prev_rows, m_prev_items,
                    m_start_snapshot, m_start_rss >>
    /\ UNCHANGED m_pending

\* main() line 414, failing: save_snapshot raises or the process is killed in
\* it, after open(path, "w")
MsSaveSnapshotFails ==
    /\ m_pc = "compared"
    /\ m_snapshot' \in FailedWrites(m_snapshot, save_snapshot(m_new_snapshot)[1])
    /\ m_pc' = "idle"
    /\ m_outcome' = "save_failed"
    /\ m_faults < MaxFaults
    /\ m_faults' = m_faults + 1
    /\ UNCHANGED << call, unifiedVars, m_rows, m_old_snapshot, m_changes, m_new_snapshot,
                    m_csv, m_rss, m_runs, m_prev_rows, m_prev_items, m_start_snapshot,
                    m_start_rss >>
    /\ UNCHANGED m_pending

\* main() line 420, failing: write_rss raises or the process is killed in it
MsWriteRssFails ==
    /\ m_pc = "saved"
    /\ LET changes == IF m_old_snapshot = << >> THEN << BaselineEvent >> ELSE m_changes
           content == ms_write_rss(changes, m_rss, m_runs)[1]
       IN  m_rss' \in { m_rss } \cup
                      { << [content EXCEPT !.items = SubSeq(content.items, 1, n)], "truncated" >> :
                          n \in 0..Len(content.items) }
    /\ m_pending' = m_pending \ ReportedIn(m_rss')
    /\ m_pc' = "idle"
    /\ m_outcome' = "rss_failed"
    /\ m_faults < MaxFaults
    /\ m_faults' = m_faults + 1
    /\ UNCHANGED << call, unifiedVars, m_rows, m_old_snapshot, m_changes, m_new_snapshot,
                    m_csv, m_snapshot, m_runs, m_prev_rows, m_prev_items, m_start_snapshot,
                    m_start_rss >>

MsInit == call = NoCall /\ UnifiedIdle /\ MsIdle

MsNext ==
    \/ MsFetchParse
    \/ MsWriteCsv
    \/ MsWriteCsvFails
    \/ MsCompare
    \/ MsLoadFails
    \/ MsSaveSnapshot
    \/ MsSaveSnapshotFails
    \/ MsWriteRss
    \/ MsWriteRssFails

\* repeated runs of scrape_ms_retirements.py
SpecMs == MsInit /\ [][MsNext]_vars

(***************************************************************************)
(* Claims about the runs of the two scripts.                               *)
(***************************************************************************)
\* the last run of scrape.py ended normally
UnifiedRunDone == u_pc = "idle" /\ u_outcome \in { "first", "nochange", "changed" }

\* the last run of scrape_ms_retirements.py ended normally
MsRunDone == m_pc = "idle" /\ m_outcome = "done"

\* C3: at the end of every successful run the stored snapshot is that run's
\* canonical set, so a run of scrape.py whose scraped rows are identical to
\* the rows of the successful run before it detects zero changes.
C3_IdenticalRowsDetectNoChange ==
    (UnifiedRunDone /\ u_prev_rows = Some(u_all_rows)) => u_changes = << >>

\* C3 for the multi-tab script: a run whose rows are identical to the rows
\* of the run before it detects no new and no updated row.
C3_MsIdenticalRowsDetectNoChange ==
    (MsRunDone /\ m_prev_rows = Some(m_rows))
        => \A i \in 1..Len(m_changes) : m_changes[i].type = "baseline"

\* C3, the first half alone: after a successful run of scrape.py the rows
\* stored in model_retirements.csv are the rows of that run.
C3_SnapshotIsLastCanonicalSet == UnifiedRunDone => u_csv = write_csv(u_all_rows)

\* C4: on a run of scrape.py that finds no prior snapshot and scrapes N >= 1
\* rows, the feed gains exactly one entry, and that entry is not the entry
\* of a scraped row.
C4_FirstRunSingleBaseline ==
    (UnifiedRunDone /\ u_outcome = "first")
        => /\ Len(u_rss[1]) = 1
           /\ \A i \in 1..Len(u_rss[1]), j \in 1..Len(u_all_rows) :
                  u_rss[1][i] # RssItem(u_all_rows[j], u_runs)

\* C4 for the multi-tab script: a run that loads an empty snapshot and has
\* N >= 1 rows hands write_rss the baseline event alone, and the feed gains
\* exactly one entry.
C4_MsEmptySnapshotSingleBaseline ==
    (MsRunDone /\ m_old_snapshot = << >> /\ Len(m_rows) >= 1)
        => /\ m_changes = << BaselineEvent >>
           /\ Len(read_existing_rss_items(m_rss)) = Len(m_prev_items) + 1

\* a first run of the multi-tab script over two or more rows has ended
C4_MsWitness == MsRunDone /\ m_old_snapshot = << >> /\ Len(m_rows) >= 2 /\ m_runs = 1

(***************************************************************************)
(* Claims about failing steps and about the files a run leaves behind.     *)
(***************************************************************************)
\* the last run of scrape_ms_retirements.py ended with an uncaught error
MsRunFailed ==
    /\ m_pc = "idle"
    /\ m_outcome \in { "failed", "csv_failed", "load_failed", "save_failed", "rss_failed" }

\* C11: when a step of a run fails fatally, the snapshot file and the feed
\* file hold exactly the content they had when the run started.
C11_FailedRunLeavesSnapshotAndFeed ==
    MsRunFailed => (m_snapshot = m_start_snapshot /\ m_rss = m_start_rss)

\* C11, the feed alone: a failed run whose feed write did not even open the
\* file leaves the feed as it was (the snapshot may have been saved already).
C11_FeedKeptWhenNoFeedWriteStarted ==
    (MsRunFailed /\ m_outcome # "rss_failed") => m_rss = m_start_rss

\* C12: a missing or corrupted snapshot file is treated as no prior
\* snapshot: no run ends because the load failed, and the comparison that
\* follows the load of such a file is made with the empty mapping.
C12_UnreadableSnapshotIsNoPriorSnapshot ==
    /\ m_outcome # "load_failed"
    /\ (m_pc = "compared" /\ ~IsJsonObject(m_snapshot)) => m_old_snapshot = << >>

\* C12 for the missing file alone: the comparison after the load of a
\* missing snapshot file is made with the empty mapping.
C12_MissingSnapshotIsEmpty ==
    (m_pc = "compared" /\ m_snapshot = NoFile) => m_old_snapshot = << >>

\* C13: the save of the snapshot is all-or-nothing: whenever the save stops,
\* completed or not, the file is the complete previous snapshot or the
\* complete new one, and a later load can always read it.
C13_SnapshotSaveAllOrNothing ==
    /\ IsLoadable(m_snapshot)
    /\ (m_pc = "saved" \/ (m_pc = "idle" /\ m_outcome = "save_failed"))
           => m_snapshot \in { m_start_snapshot, save_snapshot(m_new_snapshot) }

\* C13 for saves that complete: the file is the complete new snapshot.
C13_CompletedSaveIsComplete == m_pc = "saved" => m_snapshot = save_snapshot(m_new_snapshot)

(***************************************************************************)
(* Claims about the feed.                                                  *)
(***************************************************************************)
\* the entries of a feed file, first to last
FeedEntries(file) == IF file = NoFile THEN << >> ELSE file[1].items

C14_UnifiedNoChangeKeepsFeed ==
    [][(u_pc = "scraped" /\ u_outcome' = "nochange") => u_rss' = u_rss]_vars

\* the entries of the feed of scrape.py that carry the time of the last run
UnifiedEntriesOfRun ==
    LET OfRun(item) == item.pubDate = u_runs
    IN  SelectSeq(u_rss[1], OfRun)

\* C15: when a run of scrape.py detects k >= 1 changes, the feed holds
\* exactly k entries generated by that run, one per change in event order,
\* and none for an unchanged record.
C15_OneNewEntryPerChange ==
    (UnifiedRunDone /\ u_outcome = "changed")
        => UnifiedEntriesOfRun = [i \in 1..Len(u_changes) |-> RssItem(u_changes[i], u_runs)]

\* C15, the previous entries: the write of the feed after a change keeps the
\* entries the feed held, in their order, after the new ones.
C15_UnifiedPreviousEntriesKept ==
    [][(u_pc = "changes_csv" /\ u_pc' = "idle")
          => \E n \in 0..Len(u_rss'[1]) :
                 SubSeq(u_rss'[1], n + 1, Len(u_rss'[1])) = u_rss[1]]_vars

\* C15 for the multi-tab script: after a run with k >= 1 change events the
\* feed is the k entries of the events, in event order, followed by the
\* entries the run found.
C15_MsChangesPrepended ==
    (MsRunDone /\ Len(m_changes) >= 1)
        => FeedEntries(m_rss)
               = [i \in 1..Len(m_changes) |-> MsRssItem(m_changes[i], m_runs)]
                 \o FeedEntries(m_start_rss)


\* C16: guids are stable and unique across runs: two entries of the feed
\* report the same logical change exactly when they carry the same guid.
C16_GuidStableAndUnique ==
    \A i, j \in 1..Len(FeedEntries(m_rss)) :
        LogicalChange(FeedEntries(m_rss)[i]) = LogicalChange(FeedEntries(m_rss)[j])
            <=> FeedEntries(m_rss)[i].guid = FeedEntries(m_rss)[j].guid

\* C16, uniqueness alone: entries that report different logical changes
\* carry different guids.
C16_GuidUnique ==
    \A i, j \in 1..Len(FeedEntries(m_rss)) :
        FeedEntries(m_rss)[i].guid = FeedEntries(m_rss)[j].guid
            => LogicalChange(FeedEntries(m_rss)[i]) = LogicalChange(FeedEntries(m_rss)[j])

(***************************************************************************)
(* Claims about removed identities and the order of the events.            *)
(***************************************************************************)
\* C17: an identity of the prior snapshot that is absent from the new rows
\* produces no event: every event of compare_snapshots carries the identity
\* of a new row, every row diff_rows returns is a new row, and there are
\* never more events than new rows.
C17_RemovedIdentityNoEvent ==
    /\ call.fn = "compare_snapshots" =>
         /\ Len(call.changes) <= Len(call.new_rows)
         /\ \A j \in 1..Len(call.changes) :
                \E i \in 1..Len(call.new_rows) :
                    /\ call.changes[j].key = Identity(call.new_rows[i])
                    /\ call.changes[j].new = call.new_rows[i]
    /\ call.fn = "diff_rows" =>
         /\ Len(call.changes) <= Len(call.new_rows)
         /\ \A j \in 1..Len(call.changes) :
                \E i \in 1..Len(call.new_rows) : call.changes[j] = call.new_rows[i]

\* compare_snapshots was given a prior snapshot with an identity that no new
\* row has, next to a row that does produce an event
C17_Witness ==
    /\ call.fn = "compare_snapshots"
    /\ \E k \in 1..Len(call.old) :
           \A i \in 1..Len(call.new_rows) : Identity(call.new_rows[i]) # call.old[k][1]
    /\ Len(call.changes) >= 1

\* a is b with some elements left out
RECURSIVE IsSubsequence(_, _)
IsSubsequence(a, b) ==
    IF a = << >> THEN TRUE
    ELSE IF b = << >> THEN FALSE
    ELSE IF Head(a) = Head(b) THEN IsSubsequence(Tail(a), Tail(b))
    ELSE IsSubsequence(a, Tail(b))

\* the entries of a mapping in the opposite iteration order
ReverseOrder(d) == [i \in 1..Len(d) |-> d[Len(d) + 1 - i]]

\* C18: the events come in the order of their rows in the new row sequence,
\* whatever the iteration order of the prior snapshot is.
C18_EventsInNewRowOrder ==
    /\ call.fn = "compare_snapshots" =>
         /\ IsSubsequence([j \in 1..Len(call.changes) |-> call.changes[j].new], call.new_rows)
         /\ compare_snapshots(ReverseOrder(call.old), call.new_rows)[1] = call.changes
    /\ call.fn = "diff_rows" =>
         /\ IsSubsequence(call.changes, call.new_rows)
         /\ diff_rows(call.new_rows, ReverseOrder(call.old)) = call.changes

\* compare_snapshots emitted events for two rows of different identities
\* that the prior snapshot holds in the opposite order
C18_Witness ==
    /\ call.fn = "compare_snapshots"
    /\ Len(call.old) = 2
    /\ Len(call.changes) = 2
    /\ call.changes[1].key # call.changes[2].key
    /\ call.changes[1].new = call.new_rows[1]
    /\ call.changes[2].new = call.new_rows[2]
    /\ call.old[1][1] = call.changes[2].key

(***************************************************************************)
(* Claims about the records that are stored.                               *)
(***************************************************************************)
\* the rows of a CSV file of the multi-tab script that was written completely
MsCsvRows == IF m_csv = NoFile \/ Len(m_csv) # 1 THEN << >> ELSE m_csv[1]

\* the rows of the snapshot file of the multi-tab script, when it is complete
MsSnapshotRows ==
    IF ~IsJsonObject(m_snapshot) THEN << >>
    ELSE [i \in 1..Len(m_snapshot[1]) |-> m_snapshot[1][i][2]]

\* C19: every record of the canonical set, the snapshot and the CSV carries
\* a retirement date that is a valid YYYY-MM-DD calendar date.
C19_StoredDatesAreValid ==
    /\ \A i \in 1..Len(m_rows) : IsIsoDate(Get(m_rows[i], "Retirement date"))
    /\ \A i \in 1..Len(MsCsvRows) : IsIsoDate(Get(MsCsvRows[i], "Retirement date"))
    /\ \A i \in 1..Len(MsSnapshotRows) : IsIsoDate(Get(MsSnapshotRows[i], "Retirement date"))

\* C19 for scrape.py: every scraped row and every row of the CSV files has a
\* valid YYYY-MM-DD retirement date.
C19_UnifiedDatesAreValid ==
    /\ \A i \in 1..Len(u_all_rows) : IsIsoDate(u_all_rows[i].retirement_date)
    /\ u_csv # NoFile => \A i \in 1..Len(u_csv[1]) : IsIsoDate(u_csv[1][i].retirement_date)
    /\ u_changes_csv # NoFile =>
           \A i \in 1..Len(u_changes_csv[1]) : IsIsoDate(u_changes_csv[1][i].retirement_date)

\* the identities of a sequence of rows of the multi-tab script
MsIdentities(rows) == [i \in 1..Len(rows) |-> Identity(rows[i])]

\* no element occurs twice in seq
NoDuplicates(seq) == \A i, j \in 1..Len(seq) : seq[i] = seq[j] => i = j

\* C20: within one run of the multi-tab script there is at most one record
\* per identity: the CSV holds at most one row per identity, the snapshot
\* holds for every identity the row that was compared, and compare_snapshots
\* emits at most one event per identity.
C20_OneRecordPerIdentity ==
    /\ NoDuplicates(MsIdentities(MsCsvRows))
    /\ m_pc \in { "compared", "saved" } =>
           /\ NoDuplicates([i \in 1..Len(m_changes) |-> m_changes[i].key])
           /\ \A i \in 1..Len(m_rows) :
                  DictGet(m_new_snapshot, key_for_row(m_rows[i])) = m_rows[i]

\* C20, the snapshot alone: the new snapshot has one entry per identity.
C20_SnapshotOneEntryPerIdentity ==
    NoDuplicates([i \in 1..Len(m_new_snapshot) |-> m_new_snapshot[i][1]])

(***************************************************************************)
(* Claims about changes between the snapshot and the feed.                 *)
(***************************************************************************)
\* C23: no change is lost between the snapshot and the feed: every change
\* that compare_snapshots detected against a non-empty prior snapshot and
\* that the saved snapshot holds is reported by a feed entry once a run has
\* completed, be it the run that detected it or a later one.
C23_NoAbsorbedChangeLost == MsRunDone => m_pending = {}

\* C23 without failures: as long as no write has failed, every run that has
\* ended has reported what its snapshot took in.
C23_NoLossWithoutFailure == (m_pc = "idle" /\ m_faults = 0) => m_pending = {}
====
